---------------------------- MODULE Spec2Model ----------------------------
(***************************************************************************)
(* IENA multicast sender / receiver (RainerAlewelt/DatastreamGui).         *)
(*                                                                         *)
(* The module models                                                       *)
(*   - the packet codec: build_iena_packet (sender) and parse_iena_packet  *)
(*     (receiver), byte by byte, with struct's big-endian integer fields   *)
(*     and its binary32 conversion of Python floats;                       *)
(*   - discover_streams, the bounded discovery loop;                       *)
(*   - IenaMulticastReceiver: the _listen thread, get_data and stop, with  *)
(*     the lock and the two bounded deques.                                *)
(*                                                                         *)
(* A byte string is a sequence of numbers in 0..255.  Offsets are written  *)
(* as in the source (0-based); sequences are 1-based.                      *)
(***************************************************************************)
EXTENDS Integers, Sequences, FiniteSets, TLC

(***************************************************************************)
(* Program constants.                                                      *)
(***************************************************************************)
IENA_TRAILER == 57005      \* 0xDEAD
HEADER_SIZE  == 16
TRAILER_SIZE == 2

(***************************************************************************)
(* Powers of two used by the bit-level arithmetic (all below 2^31).        *)
(***************************************************************************)
RECURSIVE Pow2(_)
Pow2(n) == IF n <= 0 THEN 1 ELSE 2 * Pow2(n - 1)

P16 == Pow2(16)
P22 == Pow2(22)
P23 == Pow2(23)
P28 == Pow2(28)

(***************************************************************************)
(* Python floats (binary64).  A finite non-zero double is                  *)
(*   (-1)^sign * (1 + hi/2^23 + lo/2^52) * 2^exp                           *)
(* where hi holds the 23 leading fraction bits and lo the 29 trailing      *)
(* ones; cls distinguishes zero, inf and nan.                              *)
(***************************************************************************)
Dbl(s, e, h, l) == [cls |-> "normal", sign |-> s, exp |-> e, hi |-> h, lo |-> l]
DZero(s)        == [cls |-> "zero", sign |-> s, exp |-> 0, hi |-> 0, lo |-> 0]
DInf(s)         == [cls |-> "inf",  sign |-> s, exp |-> 0, hi |-> 0, lo |-> 0]
DNaN            == [cls |-> "nan",  sign |-> 0, exp |-> 0, hi |-> 0, lo |-> 0]

\* Python's == on two floats: nan equals nothing, -0.0 == 0.0.
PyFloatEq(x, y) ==
    IF x.cls = "nan" \/ y.cls = "nan" THEN FALSE
    ELSE IF x.cls = "zero" /\ y.cls = "zero" THEN TRUE
    ELSE x = y

\* Python's == on two lists of floats of possibly different lengths.
PyListEq(xs, ys) ==
    /\ Len(xs) = Len(ys)
    /\ \A i \in 1..Len(xs) : PyFloatEq(xs[i], ys[i])

(***************************************************************************)
(* struct's outcomes: a value, or an exception.                            *)
(***************************************************************************)
Raise(e)  == [kind |-> "raise", exc |-> e]
Bytes(bs) == [kind |-> "bytes", bytes |-> bs]
None      == [kind |-> "None"]

(***************************************************************************)
(* struct.pack('>H', x): two bytes, or struct.error out of range.          *)
(***************************************************************************)
\* (variant: the two bytes in little-endian order)
PackU16LE(x) ==
    IF x \in 0..65535 THEN Bytes(<<x % 256, x \div 256>>)
    ELSE Raise("struct.error")

PackU16(x) ==
    IF x \in 0..65535 THEN Bytes(<<x \div 256, x % 256>>)
    ELSE Raise("struct.error")

\* struct.unpack_from('>H', data, off)
UnpackU16(data, off) ==
    IF off + 2 > Len(data) THEN Raise("struct.error")
    ELSE [kind |-> "int", val |-> data[off + 1] * 256 + data[off + 2]]

(***************************************************************************)
(* The binary32 fields (sign, biased exponent E, 23-bit fraction) that     *)
(* struct.pack('>f', x) gives a double x: C's (float)x, round to nearest   *)
(* even, and OverflowError when a finite x does not fit.                   *)
(***************************************************************************)
F32(s, e, f) == [kind |-> "f32", sign |-> s, E |-> e, frac |-> f]

F32OfNormal(x) ==
    IF x.exp > 127 THEN Raise("OverflowError")
    ELSE IF x.exp >= -126 THEN
        LET up == x.lo > P28 \/ (x.lo = P28 /\ x.hi % 2 = 1)
            m  == x.hi + (IF up THEN 1 ELSE 0)
        IN  IF m = P23
              THEN (IF x.exp + 1 > 127 THEN Raise("OverflowError")
                    ELSE F32(x.sign, x.exp + 1 + 127, 0))
              ELSE F32(x.sign, x.exp + 127, m)
    ELSE
        \* below the binary32 normal range: a subnormal, or zero
        LET s == (-126) - x.exp
        IN  IF s >= 25 THEN F32(x.sign, 0, 0)
            ELSE LET sig  == P23 + x.hi
                     q    == sig \div Pow2(s)
                     r    == sig % Pow2(s)
                     half == Pow2(s - 1)
                     up   == \/ r > half
                             \/ (r = half /\ (x.lo > 0 \/ q % 2 = 1))
                     m    == q + (IF up THEN 1 ELSE 0)
                 IN  IF m = P23 THEN F32(x.sign, 1, 0)
                     ELSE F32(x.sign, 0, m)

F32OfDouble(x) ==
    CASE x.cls = "zero" -> F32(x.sign, 0, 0)
      [] x.cls = "inf"  -> F32(x.sign, 255, 0)
      [] x.cls = "nan"  -> F32(x.sign, 255, P22)
      [] OTHER          -> F32OfNormal(x)

\* struct.pack('>f', x)
PackF32(x) ==
    LET f == F32OfDouble(x)
    IN  IF f.kind = "raise" THEN f
        ELSE Bytes(<< f.sign * 128 + f.E \div 2,
                      (f.E % 2) * 128 + f.frac \div P16,
                      (f.frac \div 256) % 256,
                      f.frac % 256 >>)

\* Index (0-based) of the leading one bit of f, 0 < f < 2^23.
RECURSIVE TopBit(_)
TopBit(f) == IF f <= 1 THEN 0 ELSE 1 + TopBit(f \div 2)

\* struct.unpack_from('>f', ...) of four bytes: the binary32 widened to a double.
UnpackF32(b0, b1, b2, b3) ==
    LET s == b0 \div 128
        e == (b0 % 128) * 2 + b1 \div 128
        f == (b1 % 128) * P16 + b2 * 256 + b3
    IN  IF e = 255 THEN (IF f = 0 THEN DInf(s) ELSE DNaN)
        ELSE IF e = 0 THEN
            (IF f = 0 THEN DZero(s)
             ELSE LET k == TopBit(f)
                  IN  Dbl(s, k - 149, f * Pow2(23 - k) - P23, 0))
        ELSE Dbl(s, e - 127, f, 0)

(***************************************************************************)
(* struct.pack(f'>{n}f', *values): n floats, big-endian.  struct.error     *)
(* when the number of arguments is not n.                                  *)
(***************************************************************************)
RECURSIVE PackFloats(_)
PackFloats(values) ==
    IF values = <<>> THEN Bytes(<<>>)
    ELSE LET h == PackF32(Head(values))
             t == PackFloats(Tail(values))
         IN  IF h.kind = "raise" THEN h
             ELSE IF t.kind = "raise" THEN t
             ELSE Bytes(h.bytes \o t.bytes)

PackPayload(num_params, values) ==
    IF num_params < 0 \/ Len(values) # num_params THEN Raise("struct.error")
    ELSE PackFloats(values)

\* struct.unpack_from(f'>{n}f', data, off) as a list.
UnpackFloats(data, off, n) ==
    IF n < 0 \/ off + 4 * n > Len(data) THEN Raise("struct.error")
    ELSE [kind |-> "list",
          val  |-> [i \in 1..n |->
                      UnpackF32(data[off + 4 * (i - 1) + 1],
                                data[off + 4 * (i - 1) + 2],
                                data[off + 4 * (i - 1) + 3],
                                data[off + 4 * (i - 1) + 4])]]

(***************************************************************************)
(* The sender's clock reading: microseconds since local midnight, up to    *)
(* 86,400,000,000 > 2^32, written q * 2^32 + h * 2^16 + l.                 *)
(***************************************************************************)
Micros(q, h, l) == [q |-> q, h |-> h, l |-> l]

\* us_since_midnight & 0xFFFFFFFF, as the two 16-bit halves of the result
TimeHigh(us) == <<us.h, us.l>>

\* struct.pack('>HH I HH HH', ...): struct.error when a field is out of range
PackHeader(key, size_words, time_high, time_low, status, seq, n2) ==
    LET k  == PackU16(key)
        sw == PackU16(size_words)
        th == PackU16(time_high[1])
        tl == PackU16(time_high[2])
        lo == PackU16(time_low)
        st == PackU16(status)
        sq == PackU16(seq)
        n  == PackU16(n2)
        all == <<k, sw, th, tl, lo, st, sq, n>>
    IN  IF \E i \in 1..Len(all) : all[i].kind = "raise"
          THEN Raise("struct.error")
          ELSE Bytes(k.bytes \o sw.bytes \o th.bytes \o tl.bytes \o
                     lo.bytes \o st.bytes \o sq.bytes \o n.bytes)

\* (variant: the counter is packed as it is)
SequenceFieldUnmasked(sequence) == sequence

\* sequence & 0xFFFF
SequenceField(sequence) == sequence % P16

(***************************************************************************)
(* build_iena_packet(key, sequence, values, num_params), with the clock    *)
(* reading us it takes from datetime.now().                                *)
(***************************************************************************)
build_iena_packet(key, sequence, values, num_params, us) ==
    LET time_high == TimeHigh(us)
        time_low  == 0
        payload   == PackPayload(num_params, values)
    IN  IF payload.kind = "raise" THEN payload
        ELSE LET total_bytes == 16 + Len(payload.bytes) + 2
                 size_words  == total_bytes \div 2
                 status      == 0
                 header      == PackHeader(key, size_words, time_high, time_low,
                                           status, SequenceField(sequence),
                                           num_params)
                 trailer     == PackU16(IENA_TRAILER)
             IN  IF header.kind = "raise" THEN header
                 ELSE Bytes(header.bytes \o payload.bytes \o trailer.bytes)

(***************************************************************************)
(* parse_iena_packet(data, num_params): None, the dict, or the exception   *)
(* an unpack_from past the end of data would raise.                        *)
(***************************************************************************)
\* (variant: the trailer's two bytes are left out of the minimum size)
LengthCheckNoTrailer(data, expected_size) == Len(data) < expected_size - TRAILER_SIZE

\* (variant: a datagram longer than the expected size is refused too)
LengthCheckExact(data, expected_size) == Len(data) # expected_size

LengthCheck(data, expected_size) == Len(data) < expected_size

\* (variant: the trailer is not compared)
TrailerUnchecked(trailer) == FALSE

\* (variant: only the trailer's low byte is compared)
TrailerCheckLowByte(trailer) == trailer % 256 # IENA_TRAILER % 256

TrailerCheck(trailer) == trailer # IENA_TRAILER

parse_iena_packet(data, num_params) ==
    LET payload_size  == num_params * 4
        expected_size == HEADER_SIZE + payload_size + TRAILER_SIZE
    IN  IF LengthCheck(data, expected_size) THEN None
        ELSE IF Len(data) < HEADER_SIZE THEN Raise("struct.error")
        ELSE LET trailer == UnpackU16(data, HEADER_SIZE + payload_size)
             IN  IF trailer.kind = "raise" THEN trailer
                 ELSE IF TrailerCheck(trailer.val) THEN None
                 ELSE LET values == UnpackFloats(data, HEADER_SIZE, num_params)
                      IN  IF values.kind = "raise" THEN values
                          ELSE [kind     |-> "dict",
                                key      |-> UnpackU16(data, 0).val,
                                size     |-> UnpackU16(data, 2).val,
                                time_us  |-> <<UnpackU16(data, 4).val,
                                               UnpackU16(data, 6).val>>,
                                status   |-> UnpackU16(data, 10).val,
                                sequence |-> UnpackU16(data, 12).val,
                                n_params |-> UnpackU16(data, 14).val,
                                values   |-> values.val]

(***************************************************************************)
(* Bounds of the model.                                                    *)
(***************************************************************************)
BufCap           == 2   \* the deques' maxlen in the checked runs (10_000 in the source)
MaxDatagrams     == 3   \* datagrams the network delivers to the receiver
MaxScanDatagrams == 3   \* datagrams the network delivers during the scan
MaxWindow        == 1   \* largest --window, in clock units
MaxScan          == 2   \* largest --scan, in clock ticks
ScanTimeout      == 2   \* the scan's receive timeout (0.5 s in the source), in clock ticks
MaxStarts        == 2   \* calls of start() on one receiver
MaxSend          == 2   \* packets the sender sends before it is interrupted
MaxParams        == 2   \* largest parameter count given to the codec
WindowSamples    == 10  \* samples of the windowed-snapshot scenario

(***************************************************************************)
(* The configuration: the parameter names of the metadata file, the keys   *)
(* and source addresses on the network.                                    *)
(***************************************************************************)
param_names == <<"a", "b">>
num_params  == Len(param_names)

KeyA == 2561     \* 0x0A01
KeyB == 2818     \* 0x0B02
Keys == {KeyA, KeyB}
Sources == {"10.0.0.1", "10.0.0.2"}

\* --vars: the variables to plot, each among param_names (main checks it)
Selections == { <<"a", "b">>, <<"b">> }

\* some doubles that are binary32 values
One     == Dbl(0, 0, 0, 0)          \* 1.0
Two     == Dbl(0, 1, 0, 0)          \* 2.0
Half    == Dbl(0, -1, 0, 0)         \* 0.5
NegTwoH == Dbl(1, 1, 2097152, 0)    \* -2.5
\* and some that are not
Tenth   == Dbl(0, -4, 5033164, 429496730)   \* 0.1
Huge    == Dbl(0, 132, 7018831, 298015909)   \* about 1e40

Us0 == Micros(0, 1, 2)

BytesOf(r) == r.bytes

PktA1 == BytesOf(build_iena_packet(KeyA, 0, <<One, Two>>, 2, Us0))
PktA2 == BytesOf(build_iena_packet(KeyA, 1, <<Half, NegTwoH>>, 2, Us0))
PktB1 == BytesOf(build_iena_packet(KeyB, 0, <<Two, Half>>, 2, Us0))
\* a sender with one parameter: too short for this receiver
PktShort == BytesOf(build_iena_packet(KeyA, 2, <<One>>, 1, Us0))
\* a sender with three parameters: its third float lies where the trailer is read
PktLong  == BytesOf(build_iena_packet(KeyA, 3, <<One, Two, Half>>, 3, Us0))
\* a packet whose last trailer bit is flipped
PktBadTrailer == [PktA1 EXCEPT ![Len(PktA1)] = 172]
PktEmpty == <<>>

Datagrams == {PktA1, PktA2, PktB1, PktShort, PktLong, PktBadTrailer, PktEmpty}

(***************************************************************************)
(* What a datagram is on the wire, for a receiver expecting n parameters:  *)
(* malformed (too short, or the 16-bit word after the payload is not       *)
(* 0xDEAD), or well-formed with the key in its first two bytes.            *)
(***************************************************************************)
WireMalformed(d, n) ==
    \/ Len(d) < 16 + 4 * n + 2
    \/ d[16 + 4 * n + 1] * 256 + d[16 + 4 * n + 2] # 57005

WireKey(d) == d[1] * 256 + d[2]

WireKind(d, n, key) ==
    IF WireMalformed(d, n) THEN "malformed"
    ELSE IF WireKey(d) = key THEN "match"
    ELSE "mismatch"

\* the sequence field and the values a well-formed datagram carries
WireSequence(d) == d[13] * 256 + d[14]
WireValues(d) == parse_iena_packet(d, num_params).values

(***************************************************************************)
(* State.                                                                  *)
(***************************************************************************)
VARIABLES
    \* main
    mpc,            \* position of main
    \* discover_streams
    dpc, dsock, streams, deadline, mono, ddata, dsrc,
    \* IenaMulticastReceiver
    key_filter, window, maxlen, timestamps, series, packet_count, running, lock,
    \* the _listen thread
    lpc, lsock, ldata, lvalues, lnow, li,
    \* get_data, called by the plot's update
    selected, gpc, gts, gmask, grel, gresult, gi,
    \* environment: last reading of time.time(), datagrams still to arrive
    clock, net,
    \* history: the samples appended so far, in order; how many datagrams of each
    \* kind the listening thread received; whether the scan received a malformed one
    hist, rx, dmalformed,
    \* history: the sequence field and the values of each datagram with the
    \* receiver's key, in the order recvfrom returned them to the thread
    arrived,
    \* history of the scan: how many decoded datagrams each (key, source) sent that
    \* recvfrom returned before the deadline, and at any time
    dseen,
    \* the codec, applied to inputs of its own
    cpc, cin, cbuf, cmod, cn, cout,
    \* one _listen thread per call of start(): its position and its socket
    tpc, tsock,
    \* the receiver's main on a command line of its own: position, arguments,
    \* param_names, selected, sockets opened so far
    rpc, rargs, rnames, rselected, rsocks,
    \* the sender's main: position, arguments, param_names, its socket, sequence
    spc, sargs, snames, ssock, sequence,
    \* history: for each packet the sender passed to sendto, the value of
    \* sequence it was built from and the sequence field in its bytes
    sent

mainVars   == <<mpc>>
discVars   == <<dpc, dsock, streams, deadline, mono, ddata, dsrc>>
recvVars   == <<key_filter, window, maxlen, selected>>
bufVars    == <<timestamps, series, packet_count>>
listenVars == <<lpc, lsock, ldata, lvalues, lnow, li>>
getVars    == <<gpc, gts, gmask, grel, gresult, gi>>
envVars    == <<clock, net>>
codecVars  == <<cpc, cin, cbuf, cmod, cn, cout>>
ghostVars  == <<hist, rx, arrived, dmalformed, dseen>>
threadVars == <<tpc, tsock>>
rmainVars  == <<rpc, rargs, rnames, rselected, rsocks>>
senderVars == <<spc, sargs, snames, ssock, sequence, sent>>
sideVars   == <<codecVars, threadVars, rmainVars, senderVars>>

vars == <<mpc, dpc, dsock, streams, deadline, mono, ddata, dsrc,
          key_filter, window, maxlen, timestamps, series, packet_count,
          running, lock, lpc, lsock, ldata, lvalues, lnow, li,
          selected, gpc, gts, gmask, grel, gresult, gi, clock, net, hist,
          rx, arrived, dmalformed, dseen,
          cpc, cin, cbuf, cmod, cn, cout, tpc, tsock,
          rpc, rargs, rnames, rselected, rsocks,
          spc, sargs, snames, ssock, sequence, sent>>

EmptyMap == [n \in {} |-> <<>>]

NoneReceived == [match |-> 0, mismatch |-> 0, malformed |-> 0]

NoneSeen == [early |-> EmptyMap, all |-> EmptyMap]

NoInput == [key |-> 0, sequence |-> 0, values |-> <<>>, num_params |-> 0, us |-> Us0]

CodecIdle ==
    /\ cpc = "off"
    /\ cin = NoInput
    /\ cbuf = <<>>
    /\ cmod = "none"
    /\ cn = 0
    /\ cout = None

ThreadsIdle ==
    /\ tpc = [t \in 1..MaxStarts |-> "none"]
    /\ tsock = [t \in 1..MaxStarts |-> "none"]

NoFile == [kind |-> "none", elements |-> <<>>]
NoVars == [given |-> FALSE, items |-> <<>>]
NoKey == [given |-> FALSE, value |-> 0]

NoArgs == [config |-> NoFile, vars |-> NoVars, key |-> NoKey]

ReceiverMainIdle ==
    /\ rpc = "off"
    /\ rargs = NoArgs
    /\ rnames = <<>>
    /\ rselected = <<>>
    /\ rsocks = 0

NoSenderArgs == [vars |-> <<>>, key |-> 0]

SenderIdle ==
    /\ spc = "off"
    /\ sargs = NoSenderArgs
    /\ snames = <<>>
    /\ ssock = "none"
    /\ sequence = 0
    /\ sent = <<>>

SideIdle == ThreadsIdle /\ ReceiverMainIdle /\ SenderIdle

\* before main runs: nothing is constructed yet
Init ==
    /\ mpc = "args"
    /\ dpc = "idle" /\ dsock = "none" /\ streams = EmptyMap
    /\ deadline = 0 /\ mono = 0 /\ ddata = <<>> /\ dsrc = ""
    /\ key_filter = 0 /\ window = 0 /\ maxlen = 0
    /\ timestamps = <<>> /\ series = EmptyMap /\ packet_count = 0
    /\ running = FALSE /\ lock = "free"
    /\ lpc = "idle" /\ lsock = "none" /\ ldata = <<>> /\ lvalues = <<>>
    /\ lnow = 0 /\ li = 0
    /\ selected = <<>> /\ gpc = "idle" /\ gts = <<>> /\ gmask = <<>>
    /\ grel = <<>> /\ gresult = EmptyMap /\ gi = 0
    /\ clock = 0 /\ net = 0
    /\ hist = <<>> /\ rx = NoneReceived /\ arrived = <<>>
    /\ dmalformed = FALSE /\ dseen = NoneSeen
    /\ CodecIdle
    /\ SideIdle

(***************************************************************************)
(* Deques with a maximum length: append drops from the left when full.     *)
(***************************************************************************)
\* (variant: appendleft, which drops from the right when full)
DequeAppendLeft(d, x, cap) ==
    LET a == <<x>> \o d
    IN  IF Len(a) > cap THEN SubSeq(a, 1, cap) ELSE a

\* (variant: a deque without maxlen)
DequeAppendUnbounded(d, x, cap) == Append(d, x)

DequeAppend(d, x, cap) ==
    LET a == Append(d, x)
    IN  IF Len(a) > cap THEN SubSeq(a, Len(a) - cap + 1, Len(a)) ELSE a

(***************************************************************************)
(* The lock: `with self.lock:` waits until the lock is free and takes it.  *)
(***************************************************************************)
\* (variant: the lock is taken without waiting for it)
AcquireNoWait(who) == lock' = who

Acquire(who) ==
    /\ lock = "free"
    /\ lock' = who

Release == lock' = "free"

(***************************************************************************)
(* main                                                                    *)
(***************************************************************************)
\* IenaMulticastReceiver(...), start(): the receiver as __init__ leaves it
Construct(key, w, sel, cap) ==
    /\ key_filter' = key
    /\ window' = w
    /\ selected' = sel
    /\ maxlen' = cap
    /\ timestamps' = <<>>
    /\ series' = [n \in {param_names[i] : i \in 1..num_params} |-> <<>>]
    /\ packet_count' = 0
    /\ running' = TRUE
    /\ lock' = "free"
    /\ hist' = <<>>
    /\ rx' = NoneReceived
    /\ arrived' = <<>>

\* --key given: no scan
M_Direct(key, w, sel) ==
    /\ mpc = "args"
    /\ mpc' = "plot"
    /\ Construct(key, w, sel, BufCap)
    /\ net' = MaxDatagrams
    /\ UNCHANGED <<discVars, listenVars, getVars, clock, dmalformed, dseen, sideVars>>

\* no --key: discover_streams is called; it opens its socket
M_Scan(duration) ==
    /\ mpc = "args"
    /\ mpc' = "scan"
    /\ dpc' = "loop"
    /\ dsock' = "open"
    /\ streams' = EmptyMap
    /\ deadline' = mono + duration
    /\ net' = MaxScanDatagrams
    /\ UNCHANGED <<mono, ddata, dsrc, recvVars, bufVars, running, lock,
                   listenVars, getVars, clock, ghostVars, sideVars>>

\* choose_stream: the user picks one of the discovered streams; its key is used
M_Choose(ident, w, sel) ==
    /\ mpc = "scan"
    /\ dpc = "returned"
    /\ ident \in DOMAIN streams
    /\ mpc' = "plot"
    /\ Construct(ident[1], w, sel, BufCap)
    /\ net' = MaxDatagrams
    \* the scan's locals are dead from here on
    /\ dpc' = "idle" /\ streams' = EmptyMap /\ deadline' = 0 /\ mono' = 0
    /\ dseen' = NoneSeen
    /\ UNCHANGED <<dsock, ddata, dsrc, listenVars, getVars, clock, dmalformed,
                   sideVars>>

\* choose_stream returns None (no stream found, or the user quits): main returns
M_NoStream ==
    /\ mpc = "scan"
    /\ dpc = "returned"
    /\ mpc' = "exit"
    /\ UNCHANGED <<discVars, recvVars, bufVars, running, lock, listenVars,
                   getVars, envVars, ghostVars, sideVars>>

\* the plot window is closed: finally receiver.stop()
stop ==
    /\ mpc = "plot"
    /\ gpc = "idle"
    /\ running' = FALSE
    /\ mpc' = "done"
    /\ UNCHANGED <<discVars, recvVars, bufVars, lock, listenVars, getVars,
                   envVars, ghostVars, sideVars>>

(***************************************************************************)
(* discover_streams                                                        *)
(***************************************************************************)
notDisc == <<mpc, recvVars, bufVars, running, lock, listenVars, getVars,
             clock, hist, rx, arrived, sideVars>>

\* while time.monotonic() < deadline; dt is the time since the last reading
D_Check(dt) ==
    /\ dpc = "loop"
    /\ mono' = mono + dt
    /\ IF mono' < deadline
         THEN /\ dpc' = "recv"
              /\ dsock' = dsock
         ELSE /\ dpc' = "returned"
              /\ dsock' = "closed"
    /\ UNCHANGED <<streams, deadline, ddata, dsrc, net, dmalformed, dseen, notDisc>>

\* (variant: a receive that times out takes no time)
D_TimeoutNoTime ==
    /\ dpc = "recv"
    /\ dpc' = "loop"
    /\ UNCHANGED <<dsock, streams, deadline, mono, ddata, dsrc, net, dmalformed, dseen,
                   notDisc>>

\* recvfrom times out after 0.5 s: continue
D_Timeout ==
    /\ dpc = "recv"
    /\ mono' = mono + ScanTimeout
    /\ dpc' = "loop"
    /\ UNCHANGED <<dsock, streams, deadline, ddata, dsrc, net, dmalformed, dseen, notDisc>>

\* m with the count of k raised by one
CountUp(m, k) ==
    IF k \in DOMAIN m THEN [m EXCEPT ![k] = @ + 1] ELSE (k :> 1) @@ m

\* dseen after recvfrom returned d from src at time at
Seen(d, src, at) ==
    LET pkt == parse_iena_packet(d, num_params)
    IN  IF pkt.kind # "dict" THEN dseen
        ELSE [early |-> IF at < deadline THEN CountUp(dseen.early, <<pkt.key, src>>)
                        ELSE dseen.early,
              all   |-> CountUp(dseen.all, <<pkt.key, src>>)]

\* recvfrom returns a datagram and its sender, dt after it was called and
\* before its timeout
D_Recv(d, src, dt) ==
    /\ dpc = "recv"
    /\ net > 0
    /\ dt < ScanTimeout
    /\ net' = net - 1
    /\ mono' = mono + dt
    /\ ddata' = d
    /\ dsrc' = src
    /\ dpc' = "parse"
    /\ dmalformed' = (dmalformed \/ WireMalformed(d, num_params))
    /\ dseen' = Seen(d, src, mono')
    /\ UNCHANGED <<dsock, streams, deadline, notDisc>>

\* recvfrom raises an OSError that is no timeout: nothing catches it, and
\* discover_streams is left without sock.close()
D_Error ==
    /\ dpc = "recv"
    /\ dpc' = "failed"
    /\ UNCHANGED <<dsock, streams, deadline, mono, ddata, dsrc, net, dmalformed,
                   dseen, notDisc>>

\* (variant: a record's count is set to one, never added to)
StreamsUpdateNoSum(st, ident, now) ==
    (ident :> [count |-> 1, first |-> now, last |-> now]) @@ st

StreamsUpdate(st, ident, now) ==
    LET st1 == IF ident \in DOMAIN st THEN st
               ELSE (ident :> [count |-> 0, first |-> now, last |-> now]) @@ st
    IN  [st1 EXCEPT ![ident].count = @ + 1, ![ident].last = now]

\* parse the datagram and count it
D_Handle(dt) ==
    /\ dpc = "parse"
    /\ LET pkt == parse_iena_packet(ddata, num_params)
       IN  IF pkt.kind = "raise"
             THEN /\ dpc' = "crashed"
                  /\ UNCHANGED <<streams, mono>>
           ELSE IF pkt.kind = "None"
             THEN /\ dpc' = "loop"
                  /\ UNCHANGED <<streams, mono>>
           ELSE /\ mono' = mono + dt
                /\ streams' = StreamsUpdate(streams, <<pkt.key, dsrc>>, mono')
                /\ dpc' = "loop"
    /\ ddata' = <<>>
    /\ dsrc' = ""
    /\ UNCHANGED <<dsock, deadline, net, dmalformed, dseen, notDisc>>

(***************************************************************************)
(* IenaMulticastReceiver._listen, the background thread                    *)
(***************************************************************************)
notListen == <<mpc, discVars, recvVars, running, getVars, dmalformed, dseen, sideVars>>

\* start(): the thread begins and creates its socket
L_Open ==
    /\ mpc \in {"plot", "done"}
    /\ lpc = "idle"
    /\ lsock' = "open"
    /\ lpc' = "loop"
    /\ UNCHANGED <<ldata, lvalues, lnow, li, bufVars, lock, envVars, hist, rx, arrived, notListen>>

\* while self._running: ... ; sock.close()
L_Loop ==
    /\ lpc = "loop"
    /\ IF running
         THEN /\ lpc' = "recv"
              /\ lsock' = lsock
         ELSE /\ lpc' = "exited"
              /\ lsock' = "closed"
    /\ UNCHANGED <<ldata, lvalues, lnow, li, bufVars, lock, envVars, hist, rx, arrived, notListen>>

\* recvfrom times out after 1 s: continue
L_Timeout ==
    /\ lpc = "recv"
    /\ lpc' = "loop"
    /\ UNCHANGED <<lsock, ldata, lvalues, lnow, li, bufVars, lock, envVars, hist, rx, arrived,
                   notListen>>

\* recvfrom returns a datagram
L_Recv(d) ==
    /\ lpc = "recv"
    /\ net > 0
    /\ net' = net - 1
    /\ ldata' = d
    /\ lpc' = "parse"
    /\ rx' = [rx EXCEPT ![WireKind(d, num_params, key_filter)] = @ + 1]
    /\ arrived' = IF WireKind(d, num_params, key_filter) = "match"
                    THEN Append(arrived, [sequence |-> WireSequence(d),
                                          values   |-> WireValues(d)])
                    ELSE arrived
    /\ UNCHANGED <<lsock, lvalues, lnow, li, bufVars, lock, clock, hist, notListen>>

\* recvfrom raises an OSError that is no timeout: nothing catches it, the thread
\* ends with the exception and without sock.close()
L_Error ==
    /\ lpc = "recv"
    /\ lpc' = "failed"
    /\ UNCHANGED <<lsock, ldata, lvalues, lnow, li, bufVars, lock, envVars, hist, rx, arrived,
                   notListen>>

\* (variant: the key is not compared)
DroppedOnlyNone(pkt, key) == pkt.kind = "None"

\* pkt is None or pkt['key'] != self.key_filter
Dropped(pkt, key) == pkt.kind = "None" \/ pkt.key # key

\* parse the datagram; drop it, or keep its values
L_Handle ==
    /\ lpc = "parse"
    /\ LET pkt == parse_iena_packet(ldata, num_params)
       IN  IF pkt.kind = "raise"
             THEN /\ lpc' = "crashed"
                  /\ UNCHANGED <<ldata, lvalues>>
           ELSE IF Dropped(pkt, key_filter)
             THEN /\ lpc' = "loop"
                  /\ ldata' = <<>>
                  /\ UNCHANGED lvalues
           ELSE /\ lpc' = "now"
                /\ lvalues' = pkt.values
                /\ UNCHANGED ldata
    /\ UNCHANGED <<lsock, lnow, li, bufVars, lock, envVars, hist, rx, arrived, notListen>>

\* now = time.time(); dt is the time since the last reading
L_Now(dt) ==
    /\ lpc = "now"
    /\ clock' = clock + dt
    /\ lnow' = clock'
    /\ lpc' = "lock"
    /\ UNCHANGED <<lsock, ldata, lvalues, li, bufVars, lock, net, hist, rx, arrived, notListen>>

\* (variant: the thread appends without taking the lock)
L_AcquireSkipped ==
    /\ lpc = "lock"
    /\ lpc' = "ts"
    /\ UNCHANGED <<lsock, ldata, lvalues, lnow, li, bufVars, lock, envVars, hist, rx, arrived,
                   notListen>>

\* with self.lock:
L_Acquire ==
    /\ lpc = "lock"
    /\ Acquire("listen")
    /\ lpc' = "ts"
    /\ UNCHANGED <<lsock, ldata, lvalues, lnow, li, bufVars, envVars, hist, rx, arrived, notListen>>

\* (variant: the timestamps deque has no maxlen)
L_AppendTsUnbounded ==
    /\ lpc = "ts"
    /\ timestamps' = Append(timestamps, lnow)
    /\ hist' = Append(hist, [t |-> lnow, values |-> lvalues])
    /\ li' = 1
    /\ lpc' = IF num_params = 0 THEN "count" ELSE "series"
    /\ UNCHANGED <<lsock, ldata, lvalues, lnow, series, packet_count, lock, envVars,
                   rx, arrived, notListen>>

\* self.timestamps.append(now)
L_AppendTs ==
    /\ lpc = "ts"
    /\ timestamps' = DequeAppend(timestamps, lnow, maxlen)
    /\ hist' = Append(hist, [t |-> lnow, values |-> lvalues])
    /\ li' = 1
    /\ lpc' = IF num_params = 0 THEN "count" ELSE "series"
    /\ UNCHANGED <<lsock, ldata, lvalues, lnow, series, packet_count, lock, envVars,
                   rx, arrived, notListen>>

\* self.series[name].append(pkt['values'][i]), for one name
L_AppendSeries ==
    /\ lpc = "series"
    /\ LET name == param_names[li]
       IN  series' = [series EXCEPT ![name] = DequeAppend(@, lvalues[li], maxlen)]
    /\ li' = li + 1
    /\ lpc' = IF li = num_params THEN "count" ELSE "series"
    /\ UNCHANGED <<lsock, ldata, lvalues, lnow, timestamps, packet_count, lock,
                   envVars, hist, rx, arrived, notListen>>

\* (variant: the lock is still held when the thread goes back to receive)
L_CountKeepsLock ==
    /\ lpc = "count"
    /\ packet_count' = packet_count + 1
    /\ lpc' = "loop"
    /\ ldata' = <<>> /\ lvalues' = <<>> /\ lnow' = 0 /\ li' = 0
    /\ UNCHANGED <<lsock, timestamps, series, lock, envVars, hist, rx, arrived, notListen>>

\* (variant: the counter is set from the length of the timestamps deque)
L_CountFromLength ==
    /\ lpc = "count"
    /\ packet_count' = Len(timestamps)
    /\ Release
    /\ lpc' = "loop"
    /\ ldata' = <<>> /\ lvalues' = <<>> /\ lnow' = 0 /\ li' = 0
    /\ UNCHANGED <<lsock, timestamps, series, envVars, hist, rx, arrived, notListen>>

\* self.packet_count += 1, and the lock is released
L_Count ==
    /\ lpc = "count"
    /\ packet_count' = packet_count + 1
    /\ Release
    /\ lpc' = "loop"
    /\ ldata' = <<>> /\ lvalues' = <<>> /\ lnow' = 0 /\ li' = 0
    /\ UNCHANGED <<lsock, timestamps, series, envVars, hist, rx, arrived, notListen>>

(***************************************************************************)
(* IenaMulticastReceiver.get_data(var_names), called from the plot         *)
(***************************************************************************)
notGet == <<mpc, discVars, recvVars, bufVars, running, listenVars, envVars,
            ghostVars, sideVars>>

\* ts[mask]: the elements of arr where mask is True
RECURSIVE MaskSelect(_, _)
MaskSelect(arr, mask) ==
    IF arr = <<>> THEN <<>>
    ELSE IF Head(mask) THEN <<Head(arr)>> \o MaskSelect(Tail(arr), Tail(mask))
    ELSE MaskSelect(Tail(arr), Tail(mask))

\* (variant: the first timestamp is taken for the latest)
LatestIsFirst(ts) == ts[1]

\* now = ts[-1]
Latest(ts) == ts[Len(ts)]

\* (variant: the cutoff itself is excluded)
WindowMaskStrict(ts, w) == [i \in 1..Len(ts) |-> ts[i] > ts[Len(ts)] - w]

\* mask = ts >= cutoff, with cutoff = now - self.window
WindowMask(ts, w) == [i \in 1..Len(ts) |-> ts[i] >= Latest(ts) - w]

\* rel = ts[mask] - now
Relative(ts, mask) ==
    LET kept == MaskSelect(ts, mask)
    IN  [i \in 1..Len(kept) |-> kept[i] - Latest(ts)]

\* update() calls receiver.get_data(selected)
G_Call ==
    /\ mpc = "plot"
    /\ gpc = "idle"
    /\ gpc' = "lock"
    /\ UNCHANGED <<gts, gmask, grel, gresult, gi, lock, notGet>>

\* with self.lock:
G_Acquire ==
    /\ gpc = "lock"
    /\ Acquire("get")
    /\ gpc' = "check"
    /\ UNCHANGED <<gts, gmask, grel, gresult, gi, notGet>>

\* the empty case, or ts, mask and rel
G_Snapshot ==
    /\ gpc = "check"
    /\ IF timestamps = <<>>
         THEN /\ grel' = <<>>
              /\ gresult' = [n \in {selected[i] : i \in 1..Len(selected)} |-> <<>>]
              /\ gpc' = "ret"
              /\ UNCHANGED <<gts, gmask, gi>>
         ELSE /\ gts' = timestamps
              /\ gmask' = WindowMask(gts', window)
              /\ grel' = Relative(gts', gmask')
              /\ gresult' = EmptyMap
              /\ gi' = 1
              /\ gpc' = IF selected = <<>> THEN "ret" ELSE "series"
    /\ UNCHANGED <<lock, notGet>>

\* result[name] = np.array(self.series[name])[mask], for one name;
\* numpy raises IndexError when arr and mask differ in length
G_Series ==
    /\ gpc = "series"
    /\ LET name == selected[gi]
           arr  == series[name]
       IN  IF Len(arr) # Len(gmask)
             THEN /\ gpc' = "raised"
                  /\ Release
                  /\ UNCHANGED <<gresult, gi>>
             ELSE /\ gresult' = (name :> MaskSelect(arr, gmask)) @@ gresult
                  /\ gi' = gi + 1
                  /\ gpc' = IF gi = Len(selected) THEN "ret" ELSE "series"
                  /\ UNCHANGED lock
    /\ UNCHANGED <<gts, gmask, grel, notGet>>

\* return rel, result: the lock is released
G_Return ==
    /\ gpc = "ret"
    /\ Release
    /\ gpc' = "idle"
    /\ gts' = <<>> /\ gmask' = <<>> /\ grel' = <<>> /\ gresult' = EmptyMap /\ gi' = 0
    /\ UNCHANGED notGet

(***************************************************************************)
(* The program: main, the scan, the listening thread and the plot's calls. *)
(***************************************************************************)
Windows == 0..MaxWindow

Main ==
    \/ \E key \in Keys, w \in Windows, sel \in Selections : M_Direct(key, w, sel)
    \/ \E duration \in 1..MaxScan : M_Scan(duration)
    \/ \E ident \in DOMAIN streams, w \in Windows, sel \in Selections :
          M_Choose(ident, w, sel)
    \/ M_NoStream
    \/ stop

Discover ==
    \/ \E dt \in 0..1 : D_Check(dt)
    \/ D_Timeout
    \/ \E d \in Datagrams, src \in Sources, dt \in 0..(ScanTimeout - 1) :
          D_Recv(d, src, dt)
    \/ D_Error
    \/ \E dt \in 0..1 : D_Handle(dt)

Listen ==
    \/ L_Open
    \/ L_Loop
    \/ L_Timeout
    \/ \E d \in Datagrams : L_Recv(d)
    \/ L_Error
    \/ L_Handle
    \/ \E dt \in 0..1 : L_Now(dt)
    \/ L_Acquire
    \/ L_AppendTs
    \/ L_AppendSeries
    \/ L_Count

GetData ==
    \/ G_Call
    \/ G_Acquire
    \/ G_Snapshot
    \/ G_Series
    \/ G_Return

Next == Main \/ Discover \/ Listen \/ GetData

Spec == Init /\ [][Next]_vars

(***************************************************************************)
(* The scan on its own.  discover_streams runs in the main thread, the     *)
(* only thread there is during the scan, so it always takes its next step: *)
(* it tests the deadline, it handles the datagram it holds, and a receive  *)
(* that nothing else ends is ended by its timeout.                         *)
(***************************************************************************)
NextScan ==
    \/ \E duration \in 1..MaxScan : M_Scan(duration)
    \/ Discover
    \/ M_NoStream

FairScan ==
    /\ WF_vars(\E dt \in 0..1 : D_Check(dt))
    /\ WF_vars(D_Timeout)
    /\ WF_vars(\E dt \in 0..1 : D_Handle(dt))

SpecScan == Init /\ [][NextScan]_vars /\ FairScan

(***************************************************************************)
(* The receiver on its own, started with --key.  The listening thread and  *)
(* the main thread are both scheduled again and again: each takes the step *)
(* it is ready for, a receive that nothing else ends is ended by its       *)
(* timeout, and a thread waiting for the lock gets it once it stays free.  *)
(* When update() calls get_data, and what arrives, is left open.           *)
(***************************************************************************)
NextRecv ==
    \/ M_Direct(KeyA, MaxWindow, param_names)
    \/ Listen
    \/ GetData
    \/ stop

FairRecv ==
    /\ WF_vars(L_Open)
    /\ WF_vars(L_Loop)
    /\ WF_vars(L_Timeout)
    /\ WF_vars(L_Handle)
    /\ WF_vars(\E dt \in 0..1 : L_Now(dt))
    /\ WF_vars(L_Acquire)
    /\ WF_vars(L_AppendTs)
    /\ WF_vars(L_AppendSeries)
    /\ WF_vars(L_Count)
    /\ WF_vars(G_Acquire)
    /\ WF_vars(G_Snapshot)
    /\ WF_vars(G_Series)
    /\ WF_vars(G_Return)

SpecRecv == Init /\ [][NextRecv]_vars /\ FairRecv

(***************************************************************************)
(* The windowed-snapshot scenario: a receiver for KeyA with --window 3     *)
(* whose stream delivers one sample per second, the first at t = 0.        *)
(***************************************************************************)
WindowFeed == IF net % 2 = 0 THEN PktA1 ELSE PktA2

InitWindow ==
    /\ mpc = "plot"
    /\ dpc = "idle" /\ dsock = "none" /\ streams = EmptyMap
    /\ deadline = 0 /\ mono = 0 /\ ddata = <<>> /\ dsrc = ""
    /\ key_filter = KeyA /\ window = 3 /\ maxlen = WindowSamples
    /\ timestamps = <<>>
    /\ series = [n \in {param_names[i] : i \in 1..num_params} |-> <<>>]
    /\ packet_count = 0
    /\ running = TRUE /\ lock = "free"
    /\ lpc = "idle" /\ lsock = "none" /\ ldata = <<>> /\ lvalues = <<>>
    /\ lnow = 0 /\ li = 0
    /\ selected = param_names /\ gpc = "idle" /\ gts = <<>> /\ gmask = <<>>
    /\ grel = <<>> /\ gresult = EmptyMap /\ gi = 0
    /\ clock = -1 /\ net = WindowSamples
    /\ hist = <<>> /\ rx = NoneReceived /\ arrived = <<>>
    /\ dmalformed = FALSE /\ dseen = NoneSeen
    /\ CodecIdle
    /\ SideIdle

NextWindow ==
    \/ L_Open
    \/ L_Loop
    \/ L_Recv(WindowFeed)
    \/ L_Handle
    \/ L_Now(1)
    \/ L_Acquire
    \/ L_AppendTs
    \/ L_AppendSeries
    \/ L_Count
    \/ GetData

SpecWindow == InitWindow /\ [][NextWindow]_vars

(***************************************************************************)
(* A receiver driven through its interface: an owner that constructs it    *)
(* and calls start() and stop() in any order.  Each start() creates a      *)
(* thread that runs _listen; a thread's handling of one datagram is one    *)
(* step here, the lock taken and released within it.                       *)
(***************************************************************************)
Threads == 1..MaxStarts

InitLifecycle ==
    /\ mpc = "owner"
    /\ dpc = "idle" /\ dsock = "none" /\ streams = EmptyMap
    /\ deadline = 0 /\ mono = 0 /\ ddata = <<>> /\ dsrc = ""
    /\ key_filter = KeyA /\ window = MaxWindow /\ maxlen = BufCap
    /\ timestamps = <<>>
    /\ series = [n \in {param_names[i] : i \in 1..num_params} |-> <<>>]
    /\ packet_count = 0
    /\ running = TRUE /\ lock = "free"
    /\ lpc = "idle" /\ lsock = "none" /\ ldata = <<>> /\ lvalues = <<>>
    /\ lnow = 0 /\ li = 0
    /\ selected = param_names /\ gpc = "idle" /\ gts = <<>> /\ gmask = <<>>
    /\ grel = <<>> /\ gresult = EmptyMap /\ gi = 0
    /\ clock = 0 /\ net = MaxDatagrams
    /\ hist = <<>> /\ rx = NoneReceived /\ arrived = <<>>
    /\ dmalformed = FALSE /\ dseen = NoneSeen
    /\ CodecIdle
    /\ SideIdle

notThreads == <<mpc, discVars, recvVars, listenVars, getVars, rx, arrived, dmalformed, dseen,
                codecVars, rmainVars, senderVars>>

\* start(): a new thread, whatever the receiver's state; t is the next unused one
Owner_start(t) ==
    /\ mpc = "owner"
    /\ tpc[t] = "none"
    /\ \A u \in Threads : u < t => tpc[u] # "none"
    /\ tpc' = [tpc EXCEPT ![t] = "begin"]
    /\ UNCHANGED <<tsock, bufVars, running, lock, envVars, hist, notThreads>>

\* stop(): self._running = False
Owner_stop ==
    /\ mpc = "owner"
    /\ running' = FALSE
    /\ UNCHANGED <<tpc, tsock, bufVars, lock, envVars, hist, notThreads>>

\* the thread creates its socket
T_Open(t) ==
    /\ tpc[t] = "begin"
    /\ tsock' = [tsock EXCEPT ![t] = "open"]
    /\ tpc' = [tpc EXCEPT ![t] = "loop"]
    /\ UNCHANGED <<bufVars, running, lock, envVars, hist, notThreads>>

\* while self._running: ... ; sock.close()
T_Loop(t) ==
    /\ tpc[t] = "loop"
    /\ IF running
         THEN /\ tpc' = [tpc EXCEPT ![t] = "recv"]
              /\ tsock' = tsock
         ELSE /\ tpc' = [tpc EXCEPT ![t] = "exited"]
              /\ tsock' = [tsock EXCEPT ![t] = "closed"]
    /\ UNCHANGED <<bufVars, running, lock, envVars, hist, notThreads>>

\* recvfrom times out: continue
T_Timeout(t) ==
    /\ tpc[t] = "recv"
    /\ tpc' = [tpc EXCEPT ![t] = "loop"]
    /\ UNCHANGED <<tsock, bufVars, running, lock, envVars, hist, notThreads>>

\* recvfrom raises an OSError that is no timeout
T_Error(t) ==
    /\ tpc[t] = "recv"
    /\ tpc' = [tpc EXCEPT ![t] = "failed"]
    /\ UNCHANGED <<tsock, bufVars, running, lock, envVars, hist, notThreads>>

\* recvfrom returns d: the datagram is dropped, or its sample is appended under
\* the lock with the time read dt after the last reading
T_Packet(t, d, dt) ==
    /\ tpc[t] = "recv"
    /\ net > 0
    /\ net' = net - 1
    /\ tpc' = [tpc EXCEPT ![t] = "loop"]
    /\ LET pkt == parse_iena_packet(d, num_params)
       IN  IF Dropped(pkt, key_filter)
             THEN UNCHANGED <<bufVars, lock, clock, hist>>
             ELSE /\ lock = "free"
                  /\ UNCHANGED lock
                  /\ clock' = clock + dt
                  /\ timestamps' = DequeAppend(timestamps, clock', maxlen)
                  /\ series' = [n \in DOMAIN series |->
                                   LET i == CHOOSE j \in 1..num_params : param_names[j] = n
                                   IN  DequeAppend(series[n], pkt.values[i], maxlen)]
                  /\ packet_count' = packet_count + 1
                  /\ hist' = Append(hist, [t |-> clock', values |-> pkt.values])
    /\ UNCHANGED <<tsock, running, notThreads>>

NextLifecycle ==
    \/ \E t \in Threads : Owner_start(t)
    \/ Owner_stop
    \/ \E t \in Threads : T_Open(t)
    \/ \E t \in Threads : T_Loop(t)
    \/ \E t \in Threads : T_Timeout(t)
    \/ \E t \in Threads : T_Error(t)
    \/ \E t \in Threads, d \in Datagrams, dt \in 0..1 : T_Packet(t, d, dt)

SpecLifecycle == InitLifecycle /\ [][NextLifecycle]_vars

(***************************************************************************)
(* The two programs' handling of their command lines, up to the sockets    *)
(* they open.  Here a string is the sequence of its characters, --vars is  *)
(* the sequence of the items between its commas, and a metadata file is    *)
(* the sequence of its Parameter elements, or one that does not parse.     *)
(***************************************************************************)
Letters == <<"a", "b", "c", "d", "e", "f", "g", "h", "i", "j", "k", "l", "m",
             "n", "o", "p", "q", "r", "s", "t", "u", "v", "w", "x", "y", "z">>

\* [chr(ord('a') + i) for i in range(26)]
Alphabet == [i \in 1..Len(Letters) |-> <<Letters[i]>>]

\* v.strip()
RECURSIVE Strip(_)
Strip(v) ==
    IF v = <<>> THEN v
    ELSE IF Head(v) = " " THEN Strip(Tail(v))
    ELSE IF v[Len(v)] = " " THEN Strip(SubSeq(v, 1, Len(v) - 1))
    ELSE v

\* the elements of a sequence
Range(q) == {q[i] : i \in 1..Len(q)}

\* q[:n]
Prefix(q, n) == SubSeq(q, 1, IF n < Len(q) THEN n ELSE Len(q))

\* p inserted into the sorted list q, after the elements whose index is not larger
RECURSIVE InsertByIndex(_, _)
InsertByIndex(q, p) ==
    IF q = <<>> THEN <<p>>
    ELSE IF p.index < Head(q).index THEN <<p>> \o q
    ELSE <<Head(q)>> \o InsertByIndex(Tail(q), p)

\* params.sort(key=lambda p: p[0])
RECURSIVE SortByIndex(_)
SortByIndex(q) ==
    IF q = <<>> THEN <<>>
    ELSE InsertByIndex(SortByIndex(SubSeq(q, 1, Len(q) - 1)), q[Len(q)])

\* load_xidml: the names of the file's Parameter elements, ordered by index
load_xidml(elements) ==
    LET params == SortByIndex(elements)
    IN  [i \in 1..Len(params) |-> params[i].name]

\* a string is empty when it has one item and that item is empty
IsEmptyString(items) == items = << <<>> >>

\* [v.strip() for v in args.vars.split(',')]
StripAll(items) == [i \in 1..Len(items) |-> Strip(items[i])]

\* [v.strip() for v in args.vars.split(',') if v.strip()]
RECURSIVE StripNonEmpty(_)
StripNonEmpty(items) ==
    IF items = <<>> THEN <<>>
    ELSE IF Strip(Head(items)) = <<>> THEN StripNonEmpty(Tail(items))
    ELSE <<Strip(Head(items))>> \o StripNonEmpty(Tail(items))

\* metadata files: none given, unparseable, no Parameter element, two elements
\* in reverse index order
ConfigFiles ==
    {NoFile,
     [kind |-> "bad", elements |-> <<>>],
     [kind |-> "file", elements |-> <<>>],
     [kind |-> "file", elements |-> <<[index |-> 1, name |-> <<"b">>],
                                      [index |-> 0, name |-> <<"a">>]>>]}

Given(items) == [given |-> TRUE, items |-> items]

\* --vars of the receiver
ReceiverVars ==
    {NoVars, Given(<< <<>> >>), Given(<< <<"b">> >>), Given(<< <<"a">>, <<" ", "b">> >>),
     Given(<< <<"q">> >>), Given(<< <<"a">>, <<"q">> >>)}

ReceiverArgs ==
    [config : ConfigFiles, vars : ReceiverVars,
     key : {NoKey, [given |-> TRUE, value |-> KeyA]}]

\* --vars of the sender (its default is the alphabet)
SenderVars ==
    {<< <<"a">>, <<" ", "b">> >>, << <<>> >>, << <<" ">>, <<>> >>, << <<"a">>, <<>> >>}

SenderArgs == [vars : SenderVars, key : {KeyA}]

InitConfig ==
    /\ mpc = "args"
    /\ dpc = "idle" /\ dsock = "none" /\ streams = EmptyMap
    /\ deadline = 0 /\ mono = 0 /\ ddata = <<>> /\ dsrc = ""
    /\ key_filter = 0 /\ window = 0 /\ maxlen = 0
    /\ timestamps = <<>> /\ series = EmptyMap /\ packet_count = 0
    /\ running = FALSE /\ lock = "free"
    /\ lpc = "idle" /\ lsock = "none" /\ ldata = <<>> /\ lvalues = <<>>
    /\ lnow = 0 /\ li = 0
    /\ selected = <<>> /\ gpc = "idle" /\ gts = <<>> /\ gmask = <<>>
    /\ grel = <<>> /\ gresult = EmptyMap /\ gi = 0
    /\ clock = 0 /\ net = 0
    /\ hist = <<>> /\ rx = NoneReceived /\ arrived = <<>>
    /\ dmalformed = FALSE /\ dseen = NoneSeen
    /\ CodecIdle
    /\ ThreadsIdle
    /\ rpc = "args" /\ rargs \in ReceiverArgs
    /\ rnames = <<>> /\ rselected = <<>> /\ rsocks = 0
    /\ spc = "args" /\ sargs \in SenderArgs
    /\ snames = <<>> /\ ssock = "none" /\ sequence = 0 /\ sent = <<>>

notRMain == <<mainVars, discVars, recvVars, bufVars, running, lock, listenVars,
              getVars, envVars, ghostVars, codecVars, threadVars, senderVars>>

\* param_names: from the metadata file, or a to z; a file that does not parse
\* is an error
R_Config ==
    /\ rpc = "args"
    /\ IF rargs.config.kind = "bad"
         THEN /\ rpc' = "rejected"
              /\ UNCHANGED rnames
         ELSE /\ rnames' = IF rargs.config.kind = "none" THEN Alphabet
                           ELSE load_xidml(rargs.config.elements)
              /\ rpc' = "vars"
    /\ UNCHANGED <<rargs, rselected, rsocks, notRMain>>

\* selected: --vars, or the first three names; an unknown name is an error
R_Vars ==
    /\ rpc = "vars"
    /\ LET given == rargs.vars.given /\ ~IsEmptyString(rargs.vars.items)
           sel == IF given THEN StripAll(rargs.vars.items) ELSE Prefix(rnames, 3)
       IN  IF \E i \in 1..Len(sel) : sel[i] \notin Range(rnames)
             THEN /\ rpc' = "rejected"
                  /\ UNCHANGED rselected
             ELSE /\ rselected' = sel
                  /\ rpc' = "key"
    /\ UNCHANGED <<rargs, rnames, rsocks, notRMain>>

\* --key given: no scan; else discover_streams, which opens a socket
R_Key ==
    /\ rpc = "key"
    /\ IF rargs.key.given
         THEN /\ rpc' = "receiver"
              /\ UNCHANGED rsocks
         ELSE /\ rsocks' = rsocks + 1
              /\ rpc' = "choose"
    /\ UNCHANGED <<rargs, rnames, rselected, notRMain>>

\* choose_stream: a key, or None and main returns
R_Choose(found) ==
    /\ rpc = "choose"
    /\ rpc' = IF found THEN "receiver" ELSE "exit"
    /\ UNCHANGED <<rargs, rnames, rselected, rsocks, notRMain>>

\* the receiver is constructed and started: its thread opens a socket
R_Start ==
    /\ rpc = "receiver"
    /\ rsocks' = rsocks + 1
    /\ rpc' = "plot"
    /\ UNCHANGED <<rargs, rnames, rselected, notRMain>>

notSender == <<mainVars, discVars, recvVars, bufVars, running, lock, listenVars,
               getVars, envVars, ghostVars, codecVars, threadVars, rmainVars>>

\* param_names from --vars; none is an error; the metadata file is written
S_Args ==
    /\ spc = "args"
    /\ snames' = StripNonEmpty(sargs.vars)
    /\ spc' = IF Len(snames') = 0 THEN "rejected" ELSE "socket"
    /\ UNCHANGED <<sargs, ssock, sequence, sent, notSender>>

\* sock = socket.socket(...); sequence = 0
S_Socket ==
    /\ spc = "socket"
    /\ ssock' = "open"
    /\ sequence' = 0
    /\ spc' = "loop"
    /\ UNCHANGED <<sargs, snames, sent, notSender>>

\* generate_random_values(num_params): one sample in [0, i + 1] per variable
RandomValues(n) == [1..n -> {Half, Tenth}]

\* one packet is built and sent; sequence += 1.  An exception of
\* build_iena_packet leaves the loop through finally: sock.close().
S_Send(values) ==
    /\ spc = "loop"
    /\ Len(sent) < MaxSend
    /\ LET packet == build_iena_packet(sargs.key, sequence, values,
                                       Len(snames), Us0)
       IN  IF packet.kind = "raise"
             THEN /\ spc' = "raised"
                  /\ ssock' = "closed"
                  /\ UNCHANGED <<sequence, sent>>
             ELSE /\ sent' = Append(sent, [k     |-> sequence,
                                           field |-> WireSequence(packet.bytes)])
                  /\ sequence' = sequence + 1
                  /\ UNCHANGED <<spc, ssock>>
    /\ UNCHANGED <<sargs, snames, notSender>>

\* KeyboardInterrupt; finally sock.close()
S_Interrupt ==
    /\ spc = "loop"
    /\ ssock' = "closed"
    /\ spc' = "stopped"
    /\ UNCHANGED <<sargs, snames, sequence, sent, notSender>>

NextConfig ==
    \/ R_Config
    \/ R_Vars
    \/ R_Key
    \/ \E found \in BOOLEAN : R_Choose(found)
    \/ R_Start
    \/ S_Args
    \/ S_Socket
    \/ \E values \in RandomValues(Len(snames)) : S_Send(values)
    \/ S_Interrupt

SpecConfig == InitConfig /\ [][NextConfig]_vars

(***************************************************************************)
(* The sender on its own, from its command line or from a later point of   *)
(* its loop: after k iterations of the loop sequence is k and the socket   *)
(* is open.  The values of k are those around the multiples of 65536.      *)
(***************************************************************************)
SenderKeys == Keys

LoopCounts == {n * P16 - d : n \in 1..2, d \in 0..MaxSend}

InitSender ==
    /\ mpc = "args"
    /\ dpc = "idle" /\ dsock = "none" /\ streams = EmptyMap
    /\ deadline = 0 /\ mono = 0 /\ ddata = <<>> /\ dsrc = ""
    /\ key_filter = 0 /\ window = 0 /\ maxlen = 0
    /\ timestamps = <<>> /\ series = EmptyMap /\ packet_count = 0
    /\ running = FALSE /\ lock = "free"
    /\ lpc = "idle" /\ lsock = "none" /\ ldata = <<>> /\ lvalues = <<>>
    /\ lnow = 0 /\ li = 0
    /\ selected = <<>> /\ gpc = "idle" /\ gts = <<>> /\ gmask = <<>>
    /\ grel = <<>> /\ gresult = EmptyMap /\ gi = 0
    /\ clock = 0 /\ net = 0
    /\ hist = <<>> /\ rx = NoneReceived /\ arrived = <<>>
    /\ dmalformed = FALSE /\ dseen = NoneSeen
    /\ CodecIdle
    /\ ThreadsIdle
    /\ ReceiverMainIdle
    /\ sargs \in [vars : SenderVars, key : SenderKeys]
    /\ sent = <<>>
    /\ \/ /\ spc = "args"
          /\ snames = <<>> /\ ssock = "none" /\ sequence = 0
       \/ /\ spc = "loop"
          /\ snames = StripNonEmpty(sargs.vars)
          /\ Len(snames) > 0
          /\ ssock = "open"
          /\ sequence \in LoopCounts

NextSender ==
    \/ S_Args
    \/ S_Socket
    \/ \E values \in RandomValues(Len(snames)) : S_Send(values)
    \/ S_Interrupt

SpecSender == InitSender /\ [][NextSender]_vars

(***************************************************************************)
(* The codec on its own: build a packet from inputs, possibly damage it,   *)
(* and parse it with some parameter count.                                 *)
(***************************************************************************)
FloatSamples == {NegTwoH, DZero(1), Tenth, Huge, DNaN}

RECURSIVE SeqsUpTo(_, _)
SeqsUpTo(S, n) ==
    IF n = 0 THEN {<<>>}
    ELSE LET shorter == SeqsUpTo(S, n - 1)
         IN  shorter \cup {Append(q, x) : q \in {r \in shorter : Len(r) = n - 1}, x \in S}

\* what a foreign producer may have put in the size and count fields, and
\* after the trailer
ForeignSizes  == {0, 65535}
ForeignCounts == {0, MaxParams + 1}
Tails         == {<<>>, <<0>>, <<0, 0, 222, 173>>}

CodecInputs ==
    [key        : {KeyA, 65535, 65536},
     sequence   : {1, 65535},
     values     : SeqsUpTo(FloatSamples, MaxParams),
     num_params : 0..MaxParams,
     us         : {Micros(20, 7575, 24576)}]

InitCodec ==
    /\ mpc = "args"
    /\ dpc = "idle" /\ dsock = "none" /\ streams = EmptyMap
    /\ deadline = 0 /\ mono = 0 /\ ddata = <<>> /\ dsrc = ""
    /\ key_filter = 0 /\ window = 0 /\ maxlen = 0
    /\ timestamps = <<>> /\ series = EmptyMap /\ packet_count = 0
    /\ running = FALSE /\ lock = "free"
    /\ lpc = "idle" /\ lsock = "none" /\ ldata = <<>> /\ lvalues = <<>>
    /\ lnow = 0 /\ li = 0
    /\ selected = <<>> /\ gpc = "idle" /\ gts = <<>> /\ gmask = <<>>
    /\ grel = <<>> /\ gresult = EmptyMap /\ gi = 0
    /\ clock = 0 /\ net = 0
    /\ hist = <<>> /\ rx = NoneReceived /\ arrived = <<>>
    /\ dmalformed = FALSE /\ dseen = NoneSeen
    /\ cpc = "input"
    /\ cin \in CodecInputs
    /\ cbuf = <<>>
    /\ cmod = "none"
    /\ cn = 0
    /\ cout = None
    /\ SideIdle

notCodec == <<mainVars, discVars, recvVars, bufVars, running, lock, listenVars,
              getVars, envVars, ghostVars,
              threadVars, rmainVars, senderVars>>

\* packet = build_iena_packet(key, sequence, values, num_params)
C_Build ==
    /\ cpc = "input"
    /\ LET r == build_iena_packet(cin.key, cin.sequence, cin.values,
                                  cin.num_params, cin.us)
       IN  IF r.kind = "raise"
             THEN /\ cpc' = "raised"
                  /\ cout' = r
                  /\ UNCHANGED cbuf
             ELSE /\ cpc' = "built"
                  /\ cbuf' = r.bytes
                  /\ UNCHANGED cout
    /\ UNCHANGED <<cin, cmod, cn, notCodec>>

\* the datagram is cut to its first k bytes
C_Truncate(k) ==
    /\ cpc = "built"
    /\ cmod = "none"
    /\ k < Len(cbuf)
    /\ cbuf' = SubSeq(cbuf, 1, k)
    /\ cmod' = "truncated"
    /\ UNCHANGED <<cpc, cin, cn, cout, notCodec>>

\* v with bit b (0..7) flipped
FlipBit(v, b) ==
    IF (v \div Pow2(b)) % 2 = 1 THEN v - Pow2(b) ELSE v + Pow2(b)

\* bit b (0..15) of the two trailer bytes is flipped
C_FlipTrailerBit(b) ==
    /\ cpc = "built"
    /\ cmod = "none"
    /\ LET pos == IF b < 8 THEN Len(cbuf) ELSE Len(cbuf) - 1
       IN  cbuf' = [cbuf EXCEPT ![pos] = FlipBit(@, b % 8)]
    /\ cmod' = "flipped"
    /\ UNCHANGED <<cpc, cin, cn, cout, notCodec>>

\* the bytes of the 16-bit field at offset off are replaced by those of v
SetU16(data, off, v) ==
    [data EXCEPT ![off + 1] = v \div 256, ![off + 2] = v % 256]

\* Another producer's datagram: the size field (offset 2) and the parameter
\* count field (offset 14) hold what that producer wrote, and tail follows
\* the trailer.
C_Reframe(size_words, n2, tail) ==
    /\ cpc = "built"
    /\ cmod = "none"
    /\ cbuf' = SetU16(SetU16(cbuf, 2, size_words), 14, n2) \o tail
    /\ cmod' = "reframed"
    /\ UNCHANGED <<cpc, cin, cn, cout, notCodec>>

\* pkt = parse_iena_packet(data, n)
C_Parse(n) ==
    /\ cpc = "built"
    /\ cn' = n
    /\ cout' = parse_iena_packet(cbuf, n)
    /\ cpc' = "parsed"
    /\ UNCHANGED <<cin, cbuf, cmod, notCodec>>

NextCodec ==
    \/ C_Build
    \/ \E k \in 0..(HEADER_SIZE + 4 * MaxParams + TRAILER_SIZE) : C_Truncate(k)
    \/ \E b \in 0..15 : C_FlipTrailerBit(b)
    \/ \E size_words \in ForeignSizes, n2 \in ForeignCounts, tail \in Tails :
          C_Reframe(size_words, n2, tail)
    \/ \E n \in 0..MaxParams : C_Parse(n)

SpecCodec == InitCodec /\ [][NextCodec]_vars

(***************************************************************************)
(* Properties.                                                             *)
(***************************************************************************)
ParamIndex(name) == CHOOSE i \in 1..num_params : param_names[i] = name

SelectedNames == {selected[i] : i \in 1..Len(selected)}

Min(a, b) == IF a <= b THEN a ELSE b

\* C1: under every interleaving of _listen with get_data, get_data never meets a
\* values array whose length differs from the timestamps' (numpy's IndexError), and
\* what it returns has, for each requested parameter, exactly as many values as
\* relative timestamps.
C1_SameLength ==
    /\ gpc # "raised"
    /\ \A n \in DOMAIN gresult : Len(gresult[n]) = Len(grel)
    /\ gpc = "ret" => DOMAIN gresult = SelectedNames

\* get_data returns at least two samples while the thread, holding a further
\* sample, waits for the lock
C1_Witness ==
    /\ gpc = "ret"
    /\ lpc = "lock"
    /\ Len(grel) >= 2
    /\ \A n \in SelectedNames : Len(gresult[n]) = Len(grel)

\* C2: a snapshot is a consistent view: at every position of the result, the
\* timestamp and the value of every requested parameter were appended by the same
\* packet.
C2_SamePacket ==
    (gpc = "ret" /\ gts # <<>>) =>
        \A i \in 1..Len(grel) : \E k \in 1..Len(hist) :
            /\ hist[k].t = grel[i] + gts[Len(gts)]
            /\ \A n \in SelectedNames :
                  gresult[n][i] = hist[k].values[ParamIndex(n)]

\* a snapshot of two samples from different packets, taken after an eviction
C2_Witness ==
    /\ gpc = "ret"
    /\ Len(grel) = 2
    /\ Len(hist) > maxlen
    /\ \E n \in SelectedNames : gresult[n][1] # gresult[n][2]

\* C3: after k appended packets, whenever no append is in progress, timestamps
\* and every parameter's deque hold exactly the min(k, maxlen) most recent
\* samples, in the order they were appended.
C3_Retained ==
    (mpc \in {"plot", "done"} /\ lock # "listen") =>
        LET k == Len(hist)
            m == Min(k, maxlen)
        IN  /\ timestamps = [i \in 1..m |-> hist[k - m + i].t]
            /\ \A j \in 1..num_params :
                  series[param_names[j]] = [i \in 1..m |-> hist[k - m + i].values[j]]

\* more packets were appended than the deques hold
C3_Witness ==
    /\ lock # "listen"
    /\ maxlen > 0
    /\ Len(hist) > maxlen
    /\ Len(timestamps) = maxlen
    /\ packet_count = Len(hist)

\* the positions of the buffered samples within the window of the latest one
RECURSIVE WithinWindow(_)
WithinWindow(i) ==
    IF i > Len(timestamps) THEN <<>>
    ELSE (IF timestamps[i] >= timestamps[Len(timestamps)] - window
            THEN <<i>> ELSE <<>>) \o WithinWindow(i + 1)

\* C4: with a non-empty buffer, get_data returns exactly the buffered samples whose
\* timestamp is >= latest - window, in buffer order, each relative timestamp being
\* the sample's timestamp minus the latest.
C4_Window ==
    (gpc = "ret" /\ lock = "get" /\ timestamps # <<>>) =>
        LET idx == WithinWindow(1)
        IN  /\ grel = [j \in 1..Len(idx) |->
                         timestamps[idx[j]] - timestamps[Len(timestamps)]]
            /\ \A n \in SelectedNames :
                  gresult[n] = [j \in 1..Len(idx) |-> series[n][idx[j]]]

\* a snapshot that leaves out a buffered sample older than the window
C4_Witness ==
    /\ gpc = "ret"
    /\ lock = "get"
    /\ Len(timestamps) = 2
    /\ timestamps[1] < timestamps[2] - window
    /\ grel = <<0>>

\* the scenario: ten samples at t = 0, 1, ..., 9 are buffered when get_data returns
TenSamples ==
    /\ gpc = "ret"
    /\ gts = [i \in 1..10 |-> i - 1]

\* C5 as stated: with samples at t = 0..9 and a window of 3, the snapshot taken
\* when the latest sample is t = 9 holds exactly the samples at t = 7, 8, 9, with
\* relative timestamps -2, -1, 0.
C5_ThreeSamples ==
    TenSamples =>
        /\ grel = <<-2, -1, 0>>
        /\ \A n \in SelectedNames :
              gresult[n] = [i \in 1..3 |-> hist[7 + i].values[ParamIndex(n)]]

\* C5 amended: with samples at t = 0..9 and a window of 3, the snapshot taken when
\* the latest sample is t = 9 holds exactly the samples at t = 6, 7, 8, 9 (the
\* sample exactly window seconds old is kept), with relative timestamps
\* -3, -2, -1, 0.
C5_FourSamples ==
    TenSamples =>
        /\ grel = <<-3, -2, -1, 0>>
        /\ \A i \in 1..4 : hist[6 + i].t = 5 + i
        /\ \A n \in SelectedNames :
              gresult[n] = [i \in 1..4 |-> hist[6 + i].values[ParamIndex(n)]]

C5_Witness ==
    /\ TenSamples
    /\ Len(grel) = 4
    /\ DOMAIN gresult = SelectedNames

\* the thread holds a received datagram it has not finished with
InFlight == lpc \in {"parse", "now", "lock", "ts", "series", "count"}

\* C6: a datagram that decodes but carries another key than key_filter changes
\* neither timestamps, nor any parameter's deque, nor packet_count, and the loop
\* goes on; as long as no datagram with the receiver's key has arrived, the
\* buffers are empty and packet_count is 0.
C6_KeyFilter ==
    /\ [][ (InFlight /\ WireKind(ldata, num_params, key_filter) = "mismatch") =>
             /\ UNCHANGED <<timestamps, series, packet_count>>
             /\ lpc' \in {"parse", "loop"} ]_vars
    /\ [](rx.match = 0 =>
             /\ timestamps = <<>>
             /\ \A n \in DOMAIN series : series[n] = <<>>
             /\ packet_count = 0)

\* a whole stream of datagrams with another key has been received and dropped
C6_Witness ==
    /\ mpc = "plot"
    /\ lpc = "loop"
    /\ net = 0
    /\ rx = [match |-> 0, mismatch |-> MaxDatagrams, malformed |-> 0]
    /\ timestamps = <<>>
    /\ packet_count = 0

\* C7: a malformed datagram (too short, or bad trailer) changes nothing in either
\* loop: the scan creates or updates no record, the receiver appends no sample and
\* leaves packet_count; neither loop fails, and each goes on to its next receive.
C7_MalformedDropped ==
    /\ [][ (dpc = "parse" /\ WireMalformed(ddata, num_params)) =>
             /\ streams' = streams
             /\ dpc' = "loop" ]_vars
    /\ [][ (lpc = "parse" /\ WireMalformed(ldata, num_params)) =>
             /\ UNCHANGED <<timestamps, series, packet_count>>
             /\ lpc' \in {"parse", "loop"} ]_vars
    /\ [](dpc # "crashed" /\ lpc # "crashed")

\* both loops have received a malformed datagram and are back at their loop head
\* (the scan has returned since)
C7_Witness ==
    /\ dmalformed
    /\ dsock = "closed"
    /\ rx.malformed >= 1
    /\ rx.match = 0
    /\ lpc = "loop"
    /\ net = 0
    /\ packet_count = 0

(***************************************************************************)
(* Properties of the codec.                                                *)
(***************************************************************************)
\* a double that is a binary32 value other than nan
IsBinary32(x) ==
    CASE x.cls = "nan"    -> FALSE
      [] x.cls = "normal" ->
            /\ x.lo = 0
            /\ x.exp \in -149..127
            /\ x.exp < -126 => x.hi % Pow2((-126) - x.exp) = 0
      [] OTHER            -> TRUE

AllBinary32(values) == \A i \in 1..Len(values) : IsBinary32(values[i])

RoundTripInput ==
    /\ cin.num_params >= 1
    /\ cin.key \in 0..65535
    /\ cin.sequence \in 0..65535
    /\ Len(cin.values) = cin.num_params

RoundTripDone ==
    /\ cpc = "parsed"
    /\ cmod = "none"
    /\ cn = cin.num_params

RoundTripSame ==
    /\ cout.kind = "dict"
    /\ cout.key = cin.key
    /\ cout.sequence = cin.sequence
    /\ cout.n_params = cin.num_params
    /\ PyListEq(cout.values, cin.values)

\* C8 as stated: for every N >= 1, 16-bit key, 16-bit sequence and N values,
\* parse_iena_packet(build_iena_packet(key, seq, values, N), N) is not None and
\* returns the same key, sequence and values, and n_params = N.
C8_RoundTripAll ==
    RoundTripInput =>
        /\ cpc # "raised"
        /\ RoundTripDone => RoundTripSame

\* C8 amended: the same, for values that are binary32 numbers (not nan): the
\* payload holds 32-bit floats, so any other Python float comes back rounded, and
\* one too large for binary32 makes build_iena_packet raise OverflowError.
C8_RoundTripBinary32 ==
    (RoundTripInput /\ AllBinary32(cin.values)) =>
        /\ cpc # "raised"
        /\ RoundTripDone => RoundTripSame

C8_Witness ==
    /\ RoundTripInput
    /\ AllBinary32(cin.values)
    /\ RoundTripDone
    /\ cin.num_params >= 2
    /\ cin.key = 65535
    /\ cin.sequence = 65535
    /\ cin.values[1] # cin.values[2]
    /\ cout.kind = "dict"

\* C9: for every N >= 0, a buffer shorter than 16 + 4N + 2 (the empty one and those
\* shorter than the header included) makes parse_iena_packet return None; it does
\* not raise.
C9_ShortIsNone ==
    (cpc = "parsed" /\ Len(cbuf) < 16 + 4 * cn + 2) => cout = None

\* a packet one byte short of its size has been parsed
C9_Witness ==
    /\ cpc = "parsed"
    /\ cmod = "truncated"
    /\ cn = cin.num_params
    /\ Len(cbuf) = 16 + 4 * cn + 1
    /\ cout = None

\* C10: a buffer of at least 16 + 4N + 2 bytes whose big-endian word at offset
\* 16 + 4N is not 0xDEAD (a valid packet with one trailer bit flipped, for one)
\* makes parse_iena_packet return None.
C10_BadTrailerIsNone ==
    (/\ cpc = "parsed"
     /\ Len(cbuf) >= 16 + 4 * cn + 2
     /\ cbuf[16 + 4 * cn + 1] * 256 + cbuf[16 + 4 * cn + 2] # 57005)
        => cout = None

\* a valid packet with one bit of the trailer's high byte flipped has been parsed
C10_Witness ==
    /\ cpc = "parsed"
    /\ cmod = "flipped"
    /\ cn = cin.num_params
    /\ cbuf[Len(cbuf)] = 173
    /\ cbuf[Len(cbuf) - 1] # 222
    /\ cout = None


\* the records of streams are those of the idents counted in m, with m's counts
CountsAre(m) ==
    /\ DOMAIN streams = DOMAIN m
    /\ \A ident \in DOMAIN m : streams[ident].count = m[ident]

Scanning == dpc \in {"loop", "recv", "parse"}

\* discover_streams has been left: by its return, or by an exception
ScanEnded == dpc \in {"returned", "failed", "crashed"}

\* C12: a receive is begun only before the deadline, and discover_streams, once
\* called, is eventually left (it returns, or a socket error ends it), whatever
\* arrives: nothing, malformed datagrams only, or datagrams without any timeout.
C12_ScanTerminates ==
    /\ [](dpc = "recv" => mono < deadline)
    /\ [](dpc = "returned" => mono >= deadline)
    /\ (Scanning ~> ScanEnded)

\* the scan returned after every datagram arrived and no receive timed out
C12_Witness ==
    /\ dpc = "returned"
    /\ net = 0
    /\ mono < ScanTimeout

\* the thread has left its loop: by the loop's condition, or by an exception
LoopEnded == lpc \in {"exited", "failed", "crashed"}

\* C13: once stop() has been called on a receiver whose loop was running, a loop
\* that has ended has closed the socket it opened, and an ended loop appends no
\* further sample.
C13_StoppedLoopCloses ==
    /\ (mpc = "done" /\ ~running /\ LoopEnded) => lsock = "closed"
    /\ LoopEnded => lock # "listen"

\* C14: when discover_streams has been left, and when the thread's loop has
\* ended, the socket the function opened is closed, on every path out of the
\* function.
C14_SocketsClosed ==
    /\ ScanEnded => dsock = "closed"
    /\ LoopEnded => lsock = "closed"

\* what the owner of a receiver can read of it
OwnerView == <<running, packet_count, timestamps, series, lock>>

\* C15: the step in which a socket error ends the ingestion loop leaves a trace the
\* receiver's owner can read: it changes some attribute of the receiver.
C15_FailureReported ==
    [][(lpc = "recv" /\ lpc' = "failed") => OwnerView' # OwnerView]_vars

\* the threads that run the ingestion loop now
Loops == {t \in Threads : tpc[t] \in {"begin", "loop", "recv"}}

\* C16: whatever start() and stop() calls the owner makes on one receiver, at most
\* one ingestion loop of that receiver exists at any time.
C16_OneLoop == Cardinality(Loops) <= 1

\* 1 while the thread holds a datagram with the receiver's key that it has not
\* counted yet, else 0
Uncounted ==
    IF InFlight /\ WireKind(ldata, num_params, key_filter) = "match" THEN 1 ELSE 0

\* C17: packet_count never decreases; the only step that changes it is the one
\* that ends the handling of a well-formed datagram with the receiver's key, and
\* it adds exactly one; so at any time it is the number of such datagrams
\* received, less the one being handled.  Timeouts, malformed datagrams,
\* datagrams of other keys, get_data and stop() leave it unchanged.
C17_PacketCount ==
    /\ [][ \/ packet_count' = packet_count
           \/ /\ lpc = "count"
              /\ WireKind(ldata, num_params, key_filter) = "match"
              /\ packet_count' = packet_count + 1 ]_vars
    /\ [](packet_count + Uncounted = rx.match)

\* after stop(): two datagrams were counted, a malformed one and snapshots were not
C17_Witness ==
    /\ mpc = "done"
    /\ lpc = "exited"
    /\ packet_count = 2
    /\ rx = [match |-> 2, mismatch |-> 0, malformed |-> 1]

\* C18: the thread holds the lock only while it appends, never in or around its
\* receive; no step of get_data touches the network; and every call of get_data
\* gets the lock and returns, whether or not any datagram ever arrives.
C18_LockNotHeldInReceive ==
    /\ [](lock = "listen" => lpc \in {"ts", "series", "count"})
    /\ [][gpc' # gpc => (net' = net /\ lsock' = lsock)]_vars
    /\ (gpc = "lock" ~> lock = "get")
    /\ (gpc # "idle" ~> gpc = "idle")

\* get_data holds the lock and is about to return while the thread sits in its
\* receive and no datagram has arrived
C18_Witness ==
    /\ gpc = "ret"
    /\ lock = "get"
    /\ lpc = "recv"
    /\ rx = NoneReceived

\* C19: whenever no append is in progress, the buffered samples are those of the
\* most recently received datagrams with the receiver's key, in the order in
\* which recvfrom returned them, whatever their sequence fields; the timestamps
\* are the times read for them, in the same order.
C19_ArrivalOrder ==
    lock # "listen" =>
        LET k == packet_count
            m == Len(timestamps)
        IN  /\ Len(arrived) - k = Uncounted
            /\ m = Min(k, maxlen)
            /\ \A n \in DOMAIN series : Len(series[n]) = m
            /\ \A i \in 1..m :
                  LET values == arrived[k - m + i].values
                  IN  /\ timestamps[i] = hist[k - m + i].t
                      /\ \A j \in 1..num_params :
                            series[param_names[j]][i] = values[j]

\* two samples are buffered whose packets arrived against their sequence numbers
C19_Witness ==
    /\ lock = "free"
    /\ lpc = "loop"
    /\ packet_count = 2
    /\ arrived[1].sequence > arrived[2].sequence
    /\ series["a"] = <<arrived[1].values[1], arrived[2].values[1]>>

\* the names the receiver's command line configures, when its file parses
Configured(args) ==
    IF args.config.kind = "none" THEN Alphabet ELSE load_xidml(args.config.elements)

\* the names the receiver's command line asks for with --vars
Requested(args) ==
    IF ~args.vars.given \/ IsEmptyString(args.vars.items) THEN {}
    ELSE {Strip(args.vars.items[i]) : i \in 1..Len(args.vars.items)}

\* the receiver's configuration has no parameter, or asks for an unknown name
ReceiverConfigError ==
    \/ rargs.config.kind = "bad"
    \/ Configured(rargs) = <<>>
    \/ \E v \in Requested(rargs) : v \notin Range(Configured(rargs))

\* the sender's configuration names no parameter
SenderConfigError == \A i \in 1..Len(sargs.vars) : Strip(sargs.vars[i]) = <<>>

\* C20: a program whose configuration has zero parameters, or asks for a variable
\* that is not configured, opens no socket.
C20_NoSocketOnConfigError ==
    /\ (rpc # "off" /\ ReceiverConfigError) => rsocks = 0
    /\ (spc # "off" /\ SenderConfigError) => ssock = "none"

(***************************************************************************)
(* C21.                                                                    *)
(***************************************************************************)
\* the N-parameter frame of a datagram: its first 18 + 4N bytes, with the
\* size field and the parameter count field blanked
Frame(data, N) ==
    SetU16(SetU16(SubSeq(data, 1, HEADER_SIZE + 4 * N + TRAILER_SIZE), 2, 0), 14, 0)

Accepted(r) == r.kind = "dict"

\* C21: parse_iena_packet frames a datagram by the configured parameter
\* count N only.  It accepts exactly when the datagram has at least 18 + 4N
\* bytes and the 16-bit word at offset 16 + 4N is 0xDEAD, and otherwise
\* returns None; the outcome and the returned values are those of the
\* datagram's N-parameter frame, whatever the size field, the parameter
\* count field and the bytes after offset 18 + 4N hold; and the parameter
\* count field is returned as n_params unchanged, equal to N or not.
C21_FramedByConfiguredCount ==
    cpc = "parsed" =>
        LET N      == cn
            long   == Len(cbuf) >= HEADER_SIZE + 4 * N + TRAILER_SIZE
            framed == parse_iena_packet(Frame(cbuf, N), N)
        IN  /\ Accepted(cout) <=>
                  /\ long
                  /\ cbuf[HEADER_SIZE + 4 * N + 1] * 256
                       + cbuf[HEADER_SIZE + 4 * N + 2] = IENA_TRAILER
            /\ ~Accepted(cout) => cout = None
            /\ long => (Accepted(cout) <=> Accepted(framed))
            /\ Accepted(cout) =>
                  /\ cout.values = framed.values
                  /\ Len(cout.values) = N
                  /\ cout.n_params = cbuf[15] * 256 + cbuf[16]
                  /\ cout.size = cbuf[3] * 256 + cbuf[4]

\* a datagram whose count field differs from N, whose size field is not its
\* size and which carries bytes after its frame is accepted
C21_Witness ==
    /\ cpc = "parsed"
    /\ cmod = "reframed"
    /\ Accepted(cout)
    /\ cn >= 1
    /\ cout.n_params # cn
    /\ cout.size # Len(cbuf) \div 2
    /\ Len(cbuf) > HEADER_SIZE + 4 * cn + TRAILER_SIZE

(***************************************************************************)
(* C22.                                                                    *)
(***************************************************************************)
\* C22: the sender's sequence is 0 when its loop is entered and grows by
\* exactly one with each packet sent and at no other step; the packet sent
\* when sequence is k carries k mod 65536 in its sequence field; and no
\* packet fails to be built, at the multiples of 65536 in particular.
C22_SequenceCounter ==
    /\ [][(spc = "socket" /\ spc' = "loop") => (sequence' = 0 /\ sent' = <<>>)]_vars
    /\ [][sent' # sent =>
             /\ sent' = Append(sent, [k |-> sequence, field |-> sequence % 65536])
             /\ sequence' = sequence + 1]_vars
    /\ [][(sequence' # sequence /\ spc = "loop") => sent' # sent]_vars
    /\ [](spc = "loop" => ssock = "open")
    /\ [](spc # "raised")

\* the packet after the one with sequence field 65535 was sent with field 0
C22_Witness ==
    /\ Len(sent) >= 2
    /\ sent[Len(sent) - 1].field = 65535
    /\ sent[Len(sent)].field = 0
    /\ sent[Len(sent)].k >= 65536
    /\ sequence = sent[Len(sent)].k + 1

(***************************************************************************)
(* C23.                                                                    *)
(***************************************************************************)
\* C23: whenever nobody holds the buffer lock, the timestamps deque and the
\* deque of every parameter have one and the same length, and this length is
\* min(packet_count, maxlen), maxlen being the deques' capacity (10_000 in
\* the source).
C23_LengthsAgree ==
    lock = "free" =>
        /\ \A name \in DOMAIN series : Len(series[name]) = Len(timestamps)
        /\ Len(timestamps) = Min(packet_count, maxlen)

\* the lock is free, the thread is back at its receive and more packets were
\* counted than the deques hold
C23_Witness ==
    /\ lock = "free"
    /\ lpc = "recv"
    /\ DOMAIN series # {}
    /\ maxlen > 0
    /\ packet_count > maxlen
    /\ \A name \in DOMAIN series : Len(series[name]) = maxlen

=============================================================================
